---- MODULE Spec2Model ----
(***************************************************************************)
(* A model of the burrow-owls family journaling site (src/app.py,          *)
(* src/models.py): the Flask routes, the shared-secret unlock, the         *)
(* Audiobook table, the visit counter file, the slug normalizer and the    *)
(* retailer-page metadata extractor.                                       *)
(*                                                                         *)
(* Conventions.  A Python str is a sequence of one-character strings.  A   *)
(* value that may be None is a sequence of length at most one: <<>> is     *)
(* None and <<v>> is the value v.                                          *)
(***************************************************************************)
EXTENDS Integers, Sequences, FiniteSets, TLC

VARIABLES
    uploadKey,   \* UPLOAD_KEY, read once from the environment (app.py:40)
    secretKey,   \* whether SECRET_KEY is configured (app.py:46)
    unlocked,    \* per browser session: session.get("unlocked", False)
    rows,        \* the Audiobook table; the primary key id is the index
    visits,      \* the content of site_visits.txt (None while it does not exist)
    last,        \* the last request handled and its response
    slugCall,    \* the last call of slugify: its argument and result
    vreq,        \* concurrent page views inside get_site_visits
    metaRows,    \* the book_metadata table
    fetchCalls,  \* per slug, how often the Fetcher was invoked
    cacheCalls   \* per slug, how often getOrRefresh was called

vars == <<uploadKey, secretKey, unlocked, rows, visits, last,
          slugCall, vreq, metaRows, fetchCalls, cacheCalls>>

----------------------------------------------------------------------------
(* Python values *)

NoneV == <<>>

Some(v) == <<v>>

\* Python truthiness of an optional str: None and "" are falsy.
Truthy(o) == o # NoneV /\ o[1] # <<>>

RECURSIVE SeqsUpTo(_, _)
\* All sequences over S of length at most n.
SeqsUpTo(S, n) ==
    IF n = 0 THEN {<<>>}
    ELSE LET shorter == SeqsUpTo(S, n - 1)
         IN  shorter \cup {Append(t, c) : t \in shorter, c \in S}

----------------------------------------------------------------------------
(* str.lower, str.strip, re.sub and slugify (app.py:72-75) *)

UpperLetters == <<"A", "B", "C", "D", "E", "F", "G", "H", "I", "J", "K", "L", "M",
                  "N", "O", "P", "Q", "R", "S", "T", "U", "V", "W", "X", "Y", "Z">>

LowerLetters == <<"a", "b", "c", "d", "e", "f", "g", "h", "i", "j", "k", "l", "m",
                  "n", "o", "p", "q", "r", "s", "t", "u", "v", "w", "x", "y", "z">>

DigitChars == <<"0", "1", "2", "3", "4", "5", "6", "7", "8", "9">>

Digits == {DigitChars[i] : i \in DOMAIN DigitChars}

Whitespace == {" "}

Range(f) == {f[i] : i \in DOMAIN f}

UpperSet == Range(UpperLetters)

LowerOf == [c \in UpperSet |->
              LowerLetters[CHOOSE i \in DOMAIN UpperLetters : UpperLetters[i] = c]]

\* One character of str.lower().
LowerChar(c) == IF c \in UpperSet THEN LowerOf[c] ELSE c

\* text.lower()
PyLower(text) == [i \in DOMAIN text |-> LowerChar(text[i])]

SlugClass == Range(LowerLetters) \cup Digits

\* The character class [a-z0-9] of the pattern in slugify.
InSlugClass(c) == c \in SlugClass

RECURSIVE LStrip(_, _)
LStrip(text, chars) ==
    IF text # <<>> /\ Head(text) \in chars THEN LStrip(Tail(text), chars) ELSE text

RECURSIVE RStrip(_, _)
RStrip(text, chars) ==
    IF text # <<>> /\ text[Len(text)] \in chars
    THEN RStrip(SubSeq(text, 1, Len(text) - 1), chars)
    ELSE text

\* text.strip(chars): every leading and trailing character of chars removed.
PyStrip(text, chars) == RStrip(LStrip(text, chars), chars)

RECURSIVE SkipRun(_)
\* The rest of text after a leading run of characters outside [a-z0-9].
SkipRun(text) ==
    IF text # <<>> /\ ~InSlugClass(Head(text)) THEN SkipRun(Tail(text)) ELSE text

RECURSIVE ReSubDash(_)
\* re.sub(r"[^a-z0-9]+", "-", text): left to right, each greedy match of the
\* pattern is replaced by one "-".
ReSubDash(text) ==
    IF text = <<>> THEN <<>>
    ELSE IF InSlugClass(Head(text)) THEN <<Head(text)>> \o ReSubDash(Tail(text))
    ELSE <<"-">> \o ReSubDash(SkipRun(text))

slugify_first_dash_only(text) ==
    LET t == ReSubDash(PyLower(text))
    IN  IF t # <<>> /\ Head(t) = "-" THEN Tail(t) ELSE t

slugify(text) == PyStrip(ReSubDash(PyLower(text)), {"-"})

----------------------------------------------------------------------------
(* int(), str() and str.isdigit() on decimal strings *)

DigitValue == [c \in Digits |-> (CHOOSE i \in DOMAIN DigitChars : DigitChars[i] = c) - 1]

DigitVal(c) == DigitValue[c]

\* A character str.isdigit() accepts and int() rejects (superscript two).
SuperscriptTwo == "sup2"

\* text.isdigit(): non-empty and every character a digit character.
IsDigit(text) == text # <<>> /\ \A i \in DOMAIN text : text[i] \in Digits \cup {SuperscriptTwo}

\* Whether int(text) returns instead of raising ValueError.
IntParses(text) == text # <<>> /\ \A i \in DOMAIN text : text[i] \in Digits

RECURSIVE PyInt(_)
\* int(text) for a string of decimal digits.
PyInt(text) ==
    IF text = <<>> THEN 0
    ELSE 10 * PyInt(SubSeq(text, 1, Len(text) - 1)) + DigitVal(text[Len(text)])

RECURSIVE PyStr(_)
\* str(n) for n >= 0.
PyStr(n) ==
    IF n < 10 THEN <<DigitChars[n + 1]>>
    ELSE PyStr(n \div 10) \o <<DigitChars[(n % 10) + 1]>>

----------------------------------------------------------------------------
(* Bounds and inputs *)

\* The most Audiobook rows the model creates.
MaxRows == 2

\* The highest count the visit counter is followed to.
MaxVisits == 1

Sessions == {"s1", "s2"}

richard   == <<"r", "i", "c", "h", "a", "r", "d">>
gillian   == <<"g", "i", "l", "l", "i", "a", "n">>
felicity  == <<"f", "e", "l", "i", "c", "i", "t", "y">>
elisabeth == <<"e", "l", "i", "s", "a", "b", "e", "t", "h">>
penelope  == <<"p", "e", "n", "e", "l", "o", "p", "e">>
peregrine == <<"p", "e", "r", "e", "g", "r", "i", "n", "e">>

\* The keys of PEOPLE (app.py:55-62).
PEOPLE == {richard, gillian, felicity, elisabeth, penelope, peregrine}

\* The <person> path segments requested: a key, a key in another case, and
\* a name that is no key.
Persons == {richard, <<"R", "i", "c", "h", "a", "r", "d">>, <<"b", "o", "b">>}

\* The value of UPLOAD_KEY: unset, empty, or a secret.
UploadKeys == {NoneV, Some(<<>>), Some(<<"o", "w", "l">>)}

\* The upload_key form values submitted to unlock: absent, empty, the
\* secret, and another word.
SubmittedKeys == {NoneV, Some(<<>>), Some(<<"o", "w", "l">>), Some(<<"b", "a", "t">>)}

\* listened_date strings date.fromisoformat accepts.
IsoDates == {"2026-01-05"}

\* date.fromisoformat(text) returns (rather than raising ValueError).
IsIsoDate(text) == text \in IsoDates

\* A submitted form (request.form); an absent field is None.  The fields
\* author, narrator and audible_url are copied to the row like review_text.
Form(title, rating, review_text, listened_date) ==
    [title |-> title, author |-> Some("Ann"), narrator |-> NoneV,
     audible_url |-> NoneV, review_text |-> review_text, rating |-> rating,
     listened_date |-> listened_date, upload_key |-> NoneV]

\* A request that carries no form fields.
NoForm ==
    [title |-> NoneV, author |-> NoneV, narrator |-> NoneV, audible_url |-> NoneV,
     review_text |-> NoneV, rating |-> NoneV, listened_date |-> NoneV,
     upload_key |-> NoneV]


NoPerson == <<>>

\* A response body that is not a JSON object of the API.
NoBody == [k \in {} |-> NoneV]

\* A request that fetched no page.
NoPage == [h1 |-> NoneV,
           author |-> [li |-> NoneV, label |-> NoneV],
           narrator |-> [li |-> NoneV, label |-> NoneV],
           release |-> [li |-> NoneV, label |-> NoneV]]

----------------------------------------------------------------------------
(* Helpers of app.py *)

\* normalize_person (app.py:65-69): the key, or None where it aborts with 404.
normalize_person(person) ==
    LET key == PyLower(person)
    IN  IF key \notin PEOPLE THEN NoneV ELSE Some(key)

\* uploads_disabled (app.py:78-79): not bool(UPLOAD_KEY).
uploads_disabled_only_unset(key) == key = NoneV

uploads_disabled(key) == ~Truthy(key)

\* is_unlocked (app.py:82-83).
is_unlocked(flags, s) == flags[s]

\* require_unlock (app.py:86-98): the status the wrapper aborts with, or 0
\* where it calls the wrapped view.
require_unlock_no_session_check(key, flags, s) ==
    IF uploads_disabled(key) THEN 403 ELSE 0

require_unlock(key, flags, s) ==
    IF uploads_disabled(key) THEN 403
    ELSE IF ~is_unlocked(flags, s) THEN 403
    ELSE 0

\* The count read from the file's text: int(f.read().strip() or "0") (app.py:107).
ReadCount(text) ==
    LET t == PyStrip(text, Whitespace)
    IN  PyInt(IF t = <<>> THEN <<"0">> ELSE t)

\* get_site_visits (app.py:101-112) run without interruption: the count it
\* returns, which it also leaves in the file.
get_site_visits(file) ==
    ReadCount(IF file = NoneV THEN PyStr(0) ELSE file[1]) + 1

\* The visit counter is followed up to MaxVisits.
CanCount == get_site_visits(visits) <= MaxVisits

CountVisit == visits' = Some(PyStr(get_site_visits(visits)))

Respond(op, s, person, id, form, status, body) ==
    last' = [op |-> op, sess |-> s, person |-> person, id |-> id,
             form |-> form, status |-> status, body |-> body, page |-> NoPage]

FindAudiobook_any_person(table, person_key, audiobook_id) ==
    IF audiobook_id \in DOMAIN table
    THEN Some(table[audiobook_id])
    ELSE NoneV

\* Audiobook.query.filter_by(person=person_key, id=audiobook_id).first():
\* the row, or None where first_or_404 aborts.
FindAudiobook(table, person_key, audiobook_id) ==
    IF audiobook_id \in DOMAIN table /\ table[audiobook_id].person = person_key
    THEN Some(table[audiobook_id])
    ELSE NoneV

----------------------------------------------------------------------------
(* Routes of app.py.  Each action is one request handled from start to     *)
(* response; s is the browser session the request's cookie belongs to.     *)

\* home (app.py:170-172)
home(s) ==
    /\ Respond("home", s, NoPerson, 0, NoForm, 302, NoBody)
    /\ UNCHANGED <<uploadKey, secretKey, unlocked, rows, visits>>

\* A view that renders a page for a known person and counts the visit; an
\* unknown person is 404 before anything else (app.py:177, 212).
PersonPage(op, s, person) ==
    LET key == normalize_person(person)
    IN  IF key = NoneV
        THEN /\ Respond(op, s, person, 0, NoForm, 404, NoBody)
             /\ UNCHANGED <<uploadKey, secretKey, unlocked, rows, visits>>
        ELSE /\ CanCount
             /\ CountVisit
             /\ Respond(op, s, person, 0, NoForm, 200, NoBody)
             /\ UNCHANGED <<uploadKey, secretKey, unlocked, rows>>

\* person_home (app.py:175-187)
person_home(s, person) == PersonPage("person_home", s, person)

\* audiobooks_list (app.py:210-232)
audiobooks_list(s, person) == PersonPage("audiobooks_list", s, person)

\* The form value the unlock route reads: request.form.get("upload_key", "").
SubmittedKey(form) == IF form.upload_key = NoneV THEN <<>> ELSE form.upload_key[1]

unlock_sets_flag_to_comparison(s, person, form) ==
    IF uploads_disabled(uploadKey)
    THEN /\ Respond("unlock", s, person, 0, form, 403, NoBody)
         /\ UNCHANGED <<uploadKey, secretKey, unlocked, rows, visits>>
    ELSE IF secretKey
    THEN /\ unlocked' = [unlocked EXCEPT ![s] = (Some(SubmittedKey(form)) = uploadKey)]
         /\ Respond("unlock", s, person, 0, form, 302, NoBody)
         /\ UNCHANGED <<uploadKey, secretKey, rows, visits>>
    ELSE /\ Respond("unlock", s, person, 0, form, 500, NoBody)
         /\ UNCHANGED <<uploadKey, secretKey, unlocked, rows, visits>>

\* unlock (app.py:194-203).  Writing session["unlocked"] without a
\* SECRET_KEY raises RuntimeError (the session is Flask's NullSession): 500.
unlock(s, person, form) ==
    IF uploads_disabled(uploadKey)
    THEN /\ Respond("unlock", s, person, 0, form, 403, NoBody)
         /\ UNCHANGED <<uploadKey, secretKey, unlocked, rows, visits>>
    ELSE IF Some(SubmittedKey(form)) = uploadKey
    THEN IF secretKey
         THEN /\ unlocked' = [unlocked EXCEPT ![s] = TRUE]
              /\ Respond("unlock", s, person, 0, form, 302, NoBody)
              /\ UNCHANGED <<uploadKey, secretKey, rows, visits>>
         ELSE /\ Respond("unlock", s, person, 0, form, 500, NoBody)
              /\ UNCHANGED <<uploadKey, secretKey, unlocked, rows, visits>>
    ELSE /\ Respond("unlock", s, person, 0, form, 302, NoBody)
         /\ UNCHANGED <<uploadKey, secretKey, unlocked, rows, visits>>

\* audiobook_new (app.py:235-253)
audiobook_new(s, person) ==
    LET gate == require_unlock(uploadKey, unlocked, s)
    IN  IF gate # 0
        THEN /\ Respond("audiobook_new", s, person, 0, NoForm, gate, NoBody)
             /\ UNCHANGED <<uploadKey, secretKey, unlocked, rows, visits>>
        ELSE PersonPage("audiobook_new", s, person)

\* The rating a handler assigns (app.py:272-274, 350-352): None where the
\* assignment is skipped.
SubmittedRating(form) ==
    IF Truthy(form.rating) /\ IsDigit(form.rating[1])
    THEN Some(PyInt(form.rating[1]))
    ELSE NoneV

\* Whether the handler's int(rating) or date.fromisoformat(...) raises
\* ValueError, which Flask answers with 500 before anything is committed.
FormRaises(form) ==
    \/ /\ Truthy(form.rating) /\ IsDigit(form.rating[1])
       /\ ~IntParses(form.rating[1])
    \/ /\ form.listened_date # NoneV /\ form.listened_date[1] # ""
       /\ ~IsIsoDate(form.listened_date[1])

\* The row audiobook_create builds (app.py:261-279); created_at, a
\* timestamp default, is left out.
NewAudiobook(id, person_key, form) ==
    LET title == PyStrip(form.title[1], Whitespace)
    IN  [id |-> id, person |-> person_key, title |-> title, slug |-> slugify(title),
         author |-> form.author, narrator |-> form.narrator,
         release_date |-> NoneV,
         listened_date |-> IF form.listened_date # NoneV /\ form.listened_date[1] # ""
                           THEN form.listened_date ELSE NoneV,
         rating |-> SubmittedRating(form),
         review_text |-> form.review_text, audible_url |-> form.audible_url,
         cover_url |-> NoneV, synopsis |-> NoneV]

\* audiobook_create (app.py:256-284).  request.form["title"] raises a 400
\* when the field is missing.  The new id is the next rowid.
audiobook_create(s, person, form) ==
    LET gate == require_unlock(uploadKey, unlocked, s)
        key  == normalize_person(person)
        id   == Len(rows) + 1
    IN  IF gate # 0 \/ key = NoneV \/ form.title = NoneV \/ FormRaises(form)
        THEN /\ Respond("audiobook_create", s, person, 0, form,
                        IF gate # 0 THEN gate
                        ELSE IF key = NoneV THEN 404
                        ELSE IF form.title = NoneV THEN 400 ELSE 500, NoBody)
             /\ UNCHANGED <<uploadKey, secretKey, unlocked, rows, visits>>
        ELSE /\ Len(rows) < MaxRows
             /\ rows' = Append(rows, NewAudiobook(id, key[1], form))
             /\ Respond("audiobook_create", s, person, id, form, 302, NoBody)
             /\ UNCHANGED <<uploadKey, secretKey, unlocked, visits>>

\* A page for one row: 404 for an unknown person or a row that is not this
\* person's, else the page, counting the visit (app.py:289-307, 313-332).
RowPage(op, s, person, audiobook_id) ==
    LET key == normalize_person(person)
    IN  IF key = NoneV \/ FindAudiobook(rows, key[1], audiobook_id) = NoneV
        THEN /\ Respond(op, s, person, audiobook_id, NoForm, 404, NoBody)
             /\ UNCHANGED <<uploadKey, secretKey, unlocked, rows, visits>>
        ELSE /\ CanCount
             /\ CountVisit
             /\ Respond(op, s, person, audiobook_id, NoForm, 200, NoBody)
             /\ UNCHANGED <<uploadKey, secretKey, unlocked, rows>>

\* audiobook_view (app.py:287-307)
audiobook_view(s, person, audiobook_id) ==
    RowPage("audiobook_view", s, person, audiobook_id)

\* audiobook_edit (app.py:310-332)
audiobook_edit(s, person, audiobook_id) ==
    LET gate == require_unlock(uploadKey, unlocked, s)
    IN  IF gate # 0
        THEN /\ Respond("audiobook_edit", s, person, audiobook_id, NoForm, gate, NoBody)
             /\ UNCHANGED <<uploadKey, secretKey, unlocked, rows, visits>>
        ELSE RowPage("audiobook_edit", s, person, audiobook_id)

SavedAudiobook_keeps_text(ab, form) ==
    [ab EXCEPT
        !.title = PyStrip(form.title[1], Whitespace),
        !.author = form.author,
        !.narrator = form.narrator,
        !.audible_url = form.audible_url,
        !.rating = IF SubmittedRating(form) # NoneV THEN SubmittedRating(form) ELSE @,
        !.listened_date = IF form.listened_date # NoneV /\ form.listened_date[1] # ""
                          THEN form.listened_date ELSE @]

\* The row as audiobook_save leaves it (app.py:344-357): the slug is not
\* assigned, and rating and listened_date only when submitted.
SavedAudiobook(ab, form) ==
    [ab EXCEPT
        !.title = PyStrip(form.title[1], Whitespace),
        !.author = form.author,
        !.narrator = form.narrator,
        !.review_text = form.review_text,
        !.audible_url = form.audible_url,
        !.rating = IF SubmittedRating(form) # NoneV THEN SubmittedRating(form) ELSE @,
        !.listened_date = IF form.listened_date # NoneV /\ form.listened_date[1] # ""
                          THEN form.listened_date ELSE @]

\* audiobook_save (app.py:335-360).  An exception before db.session.commit()
\* leaves the table as it was.
audiobook_save(s, person, audiobook_id, form) ==
    LET gate == require_unlock(uploadKey, unlocked, s)
        key  == normalize_person(person)
        ab   == IF key = NoneV THEN NoneV
                ELSE FindAudiobook(rows, key[1], audiobook_id)
    IN  IF gate # 0 \/ ab = NoneV \/ form.title = NoneV \/ FormRaises(form)
        THEN /\ Respond("audiobook_save", s, person, audiobook_id, form,
                        IF gate # 0 THEN gate
                        ELSE IF ab = NoneV THEN 404
                        ELSE IF form.title = NoneV THEN 400 ELSE 500, NoBody)
             /\ UNCHANGED <<uploadKey, secretKey, unlocked, rows, visits>>
        ELSE /\ rows' = [rows EXCEPT ![audiobook_id] = SavedAudiobook(ab[1], form)]
             /\ Respond("audiobook_save", s, person, audiobook_id, form, 302, NoBody)
             /\ UNCHANGED <<uploadKey, secretKey, unlocked, visits>>

----------------------------------------------------------------------------
(* fetch_metadata (app.py:367-495).                                        *)
(*                                                                         *)
(* The fetched page is described by what the handler's BeautifulSoup       *)
(* queries find in it:                                                     *)
(*   h1        the stripped text of the first <h1>, or None                *)
(*   author, narrator   for each field,                                    *)
(*     li      the stripped texts of the anchors of the field's            *)
(*             li.authorLabel / li.narratorLabel, or None without one      *)
(*     label   None when no string matches the field's label pattern, else *)
(*             links: the anchor texts of the nearest li/div ancestor that *)
(*                    is not a bc-modal-header (None without one)          *)
(*             text:  parent.get_text(" ", strip=True) of the match        *)
(*   release   li: the stripped text of li.releaseDateLabel, or None;      *)
(*             label: the text around a "Release date:" string, or None    *)
(* Release texts are sequences of tokens (":", a word, or a date).         *)

RECURSIVE Join(_, _)
\* sep.join(parts)
Join(parts, sep) ==
    IF parts = <<>> THEN <<>>
    ELSE IF Len(parts) = 1 THEN parts[1]
    ELSE parts[1] \o sep \o Join(Tail(parts), sep)

CommaSpace == <<",", " ">>

RECURSIVE AfterFirst(_, _)
\* text.split(c, 1)[1] for a text that contains c.
AfterFirst(text, c) ==
    IF text = <<>> THEN <<>>
    ELSE IF Head(text) = c THEN Tail(text)
    ELSE AfterFirst(Tail(text), c)

Contains(text, c) == \E i \in DOMAIN text : text[i] = c

\* get_text_by_label (app.py:395-421).  The parent's text contains the
\* matched label and with it a colon, so the function returns at line 409
\* whenever a label is found.
get_text_by_label(markup) ==
    IF markup.label = NoneV THEN NoneV
    ELSE IF Contains(markup.label[1].text, ":")
    THEN Some(PyStrip(AfterFirst(markup.label[1].text, ":"), Whitespace))
    ELSE Some(PyStrip(markup.label[1].text, Whitespace))

\* get_links_after_label (app.py:424-435)
get_links_after_label(markup) ==
    IF markup.label = NoneV THEN NoneV
    ELSE IF markup.label[1].links = NoneV THEN NoneV
    ELSE IF markup.label[1].links[1] = <<>> THEN NoneV
    ELSE Some(Join(markup.label[1].links[1], CommaSpace))

\* The value assigned to data["author"] / data["narrator"] (app.py:437-462):
\* every branch assigns the key.
ExtractField(markup) ==
    IF markup.li # NoneV
    THEN Some(Join(markup.li[1], CommaSpace))
    ELSE IF Truthy(get_links_after_label(markup))
    THEN get_links_after_label(markup)
    ELSE get_text_by_label(markup)

\* Date tokens and datetime.strptime on them: the ISO date, or None where
\* strptime raises ValueError.
DateTokens == {"05-18-21", "05-18-2021", "13-40-21"}

YearDigits(tok) == IF tok = "05-18-2021" THEN 4 ELSE 2

Strptime(tok, fmt) ==
    IF tok = "05-18-21" /\ fmt = "%m-%d-%y" THEN Some("2021-05-18")
    ELSE IF tok = "05-18-2021" /\ fmt = "%m-%d-%Y" THEN Some("2021-05-18")
    ELSE NoneV

\* The first date-shaped token: re.search(r"(\d{2}-\d{2}-\d{2,4})", text).
FirstDate(text) ==
    IF \E i \in DOMAIN text : text[i] \in DateTokens
    THEN Some(text[CHOOSE i \in DOMAIN text :
                     /\ text[i] \in DateTokens
                     /\ \A j \in 1..(i - 1) : text[j] \notin DateTokens])
    ELSE NoneV

\* data["release_date"], or None where the key is not set (app.py:464-493).
ExtractReleaseDate(release) ==
    IF release.li # NoneV
    THEN IF Contains(release.li[1], ":")
         THEN LET date_str == PyStrip(AfterFirst(release.li[1], ":"), Whitespace)
              IN  IF Len(date_str) = 1 /\ date_str[1] \in DateTokens
                  THEN Strptime(date_str[1], "%m-%d-%y")
                  ELSE NoneV
         ELSE NoneV
    ELSE IF release.label # NoneV /\ FirstDate(release.label[1]) # NoneV
    THEN LET date_str == FirstDate(release.label[1])[1]
         IN  Strptime(date_str, IF YearDigits(date_str) = 2 THEN "%m-%d-%y"
                                ELSE "%m-%d-%Y")
    ELSE NoneV

\* The dict fetch_metadata returns for a page (app.py:383-495).
ExtractData(page) ==
    LET release_date == ExtractReleaseDate(page.release)
        keys == {"author", "narrator"}
                \cup (IF page.h1 # NoneV THEN {"title"} ELSE {})
                \cup (IF release_date # NoneV THEN {"release_date"} ELSE {})
    IN  [k \in keys |->
            IF k = "title" THEN page.h1
            ELSE IF k = "author" THEN ExtractField(page.author)
            ELSE IF k = "narrator" THEN ExtractField(page.narrator)
            ELSE release_date]

\* fetch_metadata (app.py:367-495).  http is None where requests.get or
\* raise_for_status raises, else the page fetched.
fetch_metadata(s, url, http) ==
    LET gate == require_unlock(uploadKey, unlocked, s)
        status == IF gate # 0 THEN gate
                  ELSE IF ~Truthy(url) THEN 400
                  ELSE IF http = NoneV THEN 500
                  ELSE 200
        body == IF status = 400 THEN [k \in {"error"} |-> Some(<<"Missing URL">>)]
                ELSE IF status = 500 THEN [k \in {"error"} |-> Some(<<"str(e)">>)]
                ELSE IF status = 200 THEN ExtractData(http[1])
                ELSE NoBody
    IN  /\ last' = [op |-> "fetch_metadata", sess |-> s, person |-> NoPerson, id |-> 0,
                    form |-> NoForm, status |-> status, body |-> body,
                    page |-> IF status = 200 THEN http[1] ELSE NoPage]
        /\ UNCHANGED <<uploadKey, secretKey, unlocked, rows, visits>>

----------------------------------------------------------------------------
(* get_site_visits (app.py:101-112) step by step, for page views handled   *)
(* concurrently.  Each request runs the function once:                     *)
(*   exists  line 103   os.path.exists(path)                               *)
(*   create  line 104   open(path, "w") creates or truncates the file      *)
(*   zero    line 105   the buffered "0" reaches the file as it is closed  *)
(*   read    line 106-107   open(path, "r+") and read the count            *)
(*   write   line 108-111   write count + 1 at offset 0 and truncate       *)

\* The number of concurrent page views.
MaxRequests == 3

Views == 1..MaxRequests

\* The file's text with text written over it from offset 0, the rest kept.
WriteAtStart(content, text) ==
    IF Len(content) <= Len(text) THEN text
    ELSE text \o SubSeq(content, Len(text) + 1, Len(content))

IdleViews == [start |-> 0, req |-> [r \in Views |-> [pc |-> "idle", count |-> 0]]]

VisitStep(r, pc, count) ==
    /\ vreq' = [vreq EXCEPT !.req[r] = [pc |-> pc, count |-> count]]
    /\ UNCHANGED <<uploadKey, secretKey, unlocked, rows, last, slugCall,
                   metaRows, fetchCalls, cacheCalls>>

\* line 103
VisitExists(r) ==
    /\ vreq.req[r].pc = "exists"
    /\ VisitStep(r, IF visits = NoneV THEN "create" ELSE "read", 0)
    /\ UNCHANGED visits

\* line 104
VisitCreate(r) ==
    /\ vreq.req[r].pc = "create"
    /\ visits' = Some(<<>>)
    /\ VisitStep(r, "zero", 0)

\* line 105 and the end of its with block
VisitZero(r) ==
    /\ vreq.req[r].pc = "zero"
    /\ visits' = Some(WriteAtStart(visits[1], PyStr(0)))
    /\ VisitStep(r, "read", 0)

\* lines 106-107
VisitRead(r) ==
    /\ vreq.req[r].pc = "read"
    /\ VisitStep(r, "write", ReadCount(visits[1]))
    /\ UNCHANGED visits

\* lines 108-112; count becomes the value returned
VisitWrite(r) ==
    /\ vreq.req[r].pc = "write"
    /\ visits' = Some(PyStr(vreq.req[r].count + 1))
    /\ VisitStep(r, "done", vreq.req[r].count + 1)

----------------------------------------------------------------------------
(* The metadata cache: getOrRefresh over the book_metadata table           *)
(* (BookMetadata, models.py:46-60).  The Fetcher's outcome is an input: it *)
(* raises (None) or returns cover_url and summary, either possibly empty.  *)

\* The most getOrRefresh calls followed per slug.
MaxCalls == 3

BookSlugs == {"napoleon", "dune"}

FetchOutcomes ==
    {NoneV} \cup {Some([cover_url |-> c, summary |-> m]) :
                    c \in {NoneV, Some(<<>>), Some(<<"X">>)},
                    m \in {NoneV, Some(<<"Y">>)}}

\* The indexes of the records of a slug.
MetaOf(table, slug) == {i \in DOMAIN table : table[i].book_slug = slug}

\* A record that counts as fetched: cover_url or summary is non-empty.
Populated_both(rec) == Truthy(rec.cover_url) /\ Truthy(rec.summary)

Populated(rec) == Truthy(rec.cover_url) \/ Truthy(rec.summary)

\* A new row of book_metadata; updated_at, a timestamp, is left out.
NewMeta(slug) ==
    [book_slug |-> slug, title |-> slug, author |-> NoneV, cover_url |-> NoneV,
     summary |-> NoneV, source |-> NoneV]

\* getOrRefresh(slug, title, author): a populated record is returned as it
\* is; otherwise the record is created if absent, the Fetcher is invoked,
\* and what it returned is written back.  When the Fetcher raises, the
\* record stays as it was; persisted says whether a record created by this
\* call was kept.
getOrRefresh(slug, outcome, persisted) ==
    LET found == MetaOf(metaRows, slug)
        i     == IF found = {} THEN Len(metaRows) + 1 ELSE CHOOSE j \in found : TRUE
        table == IF found = {} THEN Append(metaRows, NewMeta(slug)) ELSE metaRows
    IN  /\ cacheCalls[slug] < MaxCalls
        /\ cacheCalls' = [cacheCalls EXCEPT ![slug] = @ + 1]
        /\ IF found # {} /\ Populated(metaRows[i])
           THEN UNCHANGED <<metaRows, fetchCalls>>
           ELSE /\ fetchCalls' = [fetchCalls EXCEPT ![slug] = @ + 1]
                /\ metaRows' =
                     IF outcome = NoneV
                     THEN IF persisted THEN table ELSE metaRows
                     ELSE [table EXCEPT ![i] =
                             [@ EXCEPT !.cover_url = outcome[1].cover_url,
                                       !.summary = outcome[1].summary,
                                       !.source = Some("openlibrary")]]
        /\ UNCHANGED <<uploadKey, secretKey, unlocked, rows, visits, last, slugCall, vreq>>

----------------------------------------------------------------------------
(* Calls of slugify *)

\* The longest generated title.
MaxTitleLen == 3

SlugAlphabet == {"a", "B", "1", "-", " ", "!"}

TheChosenBang == <<"T", "h", "e", " ", "C", "h", "o", "s", "e", "n", "!">>

AAndB == <<" ", " ", "A", " ", "&", " ", "B", " ">>

LongTitle == <<"B", " ", "!", "a", "-">>

SlugInputs == SeqsUpTo(SlugAlphabet, MaxTitleLen) \cup {TheChosenBang, AAndB, LongTitle}

NoSlugCall == [text |-> <<>>, slug |-> NoneV]

\* slugify(text) called on a title.
SlugifyTitle(text) ==
    /\ slugCall' = [text |-> text, slug |-> Some(slugify(text))]
    /\ UNCHANGED <<uploadKey, secretKey, unlocked, rows, visits, last, vreq,
                   metaRows, fetchCalls, cacheCalls>>

\* slugify called on the slug the last call returned.
SlugifySlug ==
    /\ slugCall.slug # NoneV
    /\ slugCall.slug[1] # slugCall.text
    /\ SlugifyTitle(slugCall.slug[1])

----------------------------------------------------------------------------
(* Specifications *)

NoRequest ==
    [op |-> "none", sess |-> "", person |-> NoPerson, id |-> 0, form |-> NoForm,
     status |-> 0, body |-> NoBody, page |-> NoPage]

\* The process has started: the configuration is read from the environment,
\* no session is unlocked, the table is empty, the counter file is missing.
Init ==
    /\ uploadKey \in UploadKeys
    /\ secretKey \in BOOLEAN
    /\ unlocked = [s \in Sessions |-> FALSE]
    /\ rows = <<>>
    /\ visits = NoneV
    /\ last = NoRequest
    /\ slugCall = NoSlugCall
    /\ vreq = IdleViews
    /\ metaRows = <<>>
    /\ fetchCalls = [g \in BookSlugs |-> 0]
    /\ cacheCalls = [g \in BookSlugs |-> 0]

\* What a request of the site leaves alone.
WebOnly == UNCHANGED <<slugCall, vreq, metaRows, fetchCalls, cacheCalls>>

Title(chars) == Some(chars)

\* Row ids requested: those of the rows there may be, and one past them.
RowIds == 1..(MaxRows + 1)

SomePage ==
    [h1 |-> Some(<<"T">>),
     author |-> [li |-> Some(<< <<"A", "l">> >>), label |-> NoneV],
     narrator |-> [li |-> NoneV, label |-> NoneV],
     release |-> [li |-> NoneV, label |-> NoneV]]

\* Two forms that differ in the review text.
SiteForms ==
    {Form(Title(<<"A", " ", "b">>), Some(<<"7">>), Some("t1"), NoneV),
     Form(Title(<<"A", " ", "b">>), Some(<<"7">>), Some("t2"), NoneV)}

Urls == {NoneV, Some(<<"u">>)}

\* The unlock route and the two routes that write rows.
Writes(S, P, K, F, I) ==
    \/ \E s \in S, p \in P, k \in K :
          unlock(s, p, [NoForm EXCEPT !.upload_key = k]) /\ WebOnly
    \/ \E s \in S, p \in P, f \in F : audiobook_create(s, p, f) /\ WebOnly
    \/ \E s \in S, p \in P, i \in I, f \in F : audiobook_save(s, p, i, f) /\ WebOnly

\* The routes that render a page.
Pages(S, P, I) ==
    \/ \E s \in S : home(s) /\ WebOnly
    \/ \E s \in S, p \in P : person_home(s, p) /\ WebOnly
    \/ \E s \in S, p \in P : audiobooks_list(s, p) /\ WebOnly
    \/ \E s \in S, p \in P : audiobook_new(s, p) /\ WebOnly
    \/ \E s \in S, p \in P, i \in I : audiobook_view(s, p, i) /\ WebOnly
    \/ \E s \in S, p \in P, i \in I : audiobook_edit(s, p, i) /\ WebOnly

\* The metadata API.
Api(S, U, H) ==
    \E s \in S, u \in U, h \in H : fetch_metadata(s, u, h) /\ WebOnly

\* Every route, requested by any session for any person.
Next ==
    \/ Writes(Sessions, Persons, SubmittedKeys, SiteForms, RowIds)
    \/ Pages(Sessions, Persons, RowIds)
    \/ Api(Sessions, Urls, {NoneV, Some(SomePage)})

Spec == Init /\ [][Next]_vars

\* Every request that arrives is handled.
FairSpec == Spec /\ WF_vars(Next)

----------------------------------------------------------------------------
(* The review store: unlock, create and save with varied forms *)

TheKey == Some(<<"o", "w", "l">>)

StorePersons == {richard, <<"G", "i", "l", "l", "i", "a", "n">>}

\* Forms that differ in the title and the review text.
UpsertForms ==
    {Form(Title(<<"A", " ", "b">>), NoneV, Some("t1"), NoneV),
     Form(Title(<<"A", " ", "b">>), NoneV, Some("t2"), NoneV),
     Form(Title(<<" ", "C", "!">>), NoneV, Some("t1"), NoneV)}

NextUpsert == Writes({"s1"}, StorePersons, {NoneV, TheKey}, UpsertForms, RowIds)

SpecUpsert == Init /\ [][NextUpsert]_vars

\* Submitted rating strings: absent, in range, out of range, not a number.
Ratings ==
    {NoneV, Some(<<"0">>), Some(<<"7">>), Some(<<"1", "1">>), Some(<<"x">>),
     Some(<<SuperscriptTwo>>)}

\* Forms that differ in the rating and the listened date, one without title.
RatingForms ==
    {Form(Title(<<"A", " ", "b">>), r, Some("t1"), d) :
        r \in Ratings, d \in {NoneV, Some("2026-01-05")}}
    \cup {Form(Title(<<"A", " ", "b">>), Some(<<"7">>), Some("t2"), Some("soon")),
          Form(NoneV, Some(<<"7">>), Some("t2"), NoneV)}

NextRating == Writes({"s1"}, {richard}, {TheKey}, RatingForms, RowIds)

SpecRating == Init /\ [][NextRating]_vars

----------------------------------------------------------------------------
(* slugify on its own, the visit counter under concurrency, the cache *)

\* The site configured with the secret and a session key.
InitConfigured == Init /\ uploadKey = TheKey /\ secretKey

NextSlug ==
    \/ \E text \in SlugInputs : SlugifyTitle(text)
    \/ SlugifySlug

SpecSlug == InitConfigured /\ [][NextSlug]_vars

\* The counts the visit counter file may hold when the views arrive.
StartCounts == {0, 9}

\* MaxRequests page views have arrived; the counter file is missing or holds
\* a count left by earlier views.
InitVisits ==
    /\ uploadKey = TheKey
    /\ secretKey = TRUE
    /\ unlocked = [s \in Sessions |-> FALSE]
    /\ rows = <<>>
    /\ visits \in {NoneV} \cup {Some(PyStr(n)) : n \in StartCounts}
    /\ last = NoRequest
    /\ slugCall = NoSlugCall
    /\ vreq = [start |-> IF visits = NoneV THEN 0 ELSE ReadCount(visits[1]),
               req |-> [r \in Views |-> [pc |-> "exists", count |-> 0]]]
    /\ metaRows = <<>>
    /\ fetchCalls = [g \in BookSlugs |-> 0]
    /\ cacheCalls = [g \in BookSlugs |-> 0]

NextVisits ==
    \E r \in Views :
        \/ VisitExists(r)
        \/ VisitCreate(r)
        \/ VisitZero(r)
        \/ VisitRead(r)
        \/ VisitWrite(r)

SpecVisits == InitVisits /\ [][NextVisits]_vars

NextCache ==
    \E slug \in BookSlugs, outcome \in FetchOutcomes, persisted \in BOOLEAN :
        getOrRefresh(slug, outcome, persisted)

SpecCache == InitConfigured /\ [][NextCache]_vars

\* The markup of one field: its labelled list element, or a label with or
\* without anchors around it and with or without text after its colon.
Al == <<"A", "l">>

Bo == <<"B", "o">>

ByOnly == <<"B", "y", ":">>

ByAl == <<"B", "y", ":", " ", "A", "l">>

Label(links, text) == Some([links |-> links, text |-> text])

FieldMarkups ==
    {[li |-> li, label |-> NoneV] :
        li \in {NoneV, Some(<<>>), Some(<<Al>>), Some(<<Al, Bo>>)}}
    \cup {[li |-> NoneV, label |-> Label(links, text)] :
            links \in {NoneV, Some(<<>>), Some(<< <<>> >>), Some(<<Al, Bo>>)},
            text \in {ByOnly, ByAl}}
    \cup {[li |-> Some(<<>>), label |-> Label(Some(<<Al>>), ByAl)]}

ReleaseMarkups ==
    {[li |-> li, label |-> NoneV] :
        li \in {NoneV, Some(<<"Release date", ":", " ", "05-18-21">>),
                Some(<<"Release date", ":", " ", "05-18-2021">>),
                Some(<<"Release date">>)}}
    \cup {[li |-> NoneV, label |-> Some(text)] :
            text \in {<<"Release date", ":", " ", "05-18-2021">>,
                      <<"Release date", ":", " ", "13-40-21", " ", "05-18-21">>,
                      <<"Release date", ":", " ", "soon">>}}

\* Pages that vary the author and narrator markup, and pages that vary the
\* heading and the release date.
FetchPages ==
    {[h1 |-> Some(<<"T">>), author |-> a, narrator |-> n,
      release |-> [li |-> NoneV, label |-> NoneV]] :
        a \in FieldMarkups, n \in FieldMarkups}
    \cup {[h1 |-> h, author |-> [li |-> Some(<<Al>>), label |-> NoneV],
           narrator |-> [li |-> NoneV, label |-> NoneV], release |-> r] :
            h \in {NoneV, Some(<<"T">>)}, r \in ReleaseMarkups}

NextFetch ==
    \/ \E k \in {NoneV, TheKey} :
          unlock("s1", richard, [NoForm EXCEPT !.upload_key = k]) /\ WebOnly
    \/ Api({"s1"}, Urls, {NoneV} \cup {Some(page) : page \in FetchPages})

SpecFetch == InitConfigured /\ [][NextFetch]_vars

----------------------------------------------------------------------------
(* Rows of two persons: unlock, create, save, view and edit *)

\* The routes that take an audiobook id, with the two that create rows and
\* unlock a session, requested under either person's path.  Session s1
\* unlocks and creates, s2 never unlocks; both save and edit; the view,
\* which reads no session state, is requested by s2.
NextIsolation ==
    \/ \E p \in StorePersons :
          unlock("s1", p, [NoForm EXCEPT !.upload_key = TheKey]) /\ WebOnly
    \/ \E p \in StorePersons, f \in SiteForms :
          audiobook_create("s1", p, f) /\ WebOnly
    \/ \E s \in Sessions, p \in StorePersons, i \in RowIds, f \in SiteForms :
          audiobook_save(s, p, i, f) /\ WebOnly
    \/ \E p \in StorePersons, i \in RowIds :
          audiobook_view("s2", p, i) /\ WebOnly
    \/ \E s \in Sessions, p \in StorePersons, i \in RowIds :
          audiobook_edit(s, p, i) /\ WebOnly

SpecIsolation == Init /\ [][NextIsolation]_vars

----------------------------------------------------------------------------
(* The claims *)

GatedOps ==
    {"audiobook_new", "audiobook_create", "audiobook_edit", "audiobook_save",
     "fetch_metadata"}

\* The request recorded in last' has just been handled.
Handled(op) == last'.op = op /\ last' # last

\* C1, in every state: fetch_metadata answers other than 403 only for an
\* unlocked session, and while UPLOAD_KEY is unset or empty unlock and every
\* gated route answer 403, no session is unlocked and no row exists.
C1_GateState ==
    /\ last.op = "fetch_metadata" /\ last.status # 403 => unlocked[last.sess]
    /\ uploadKey \in {NoneV, Some(<<>>)} =>
         /\ last.op \in GatedOps \cup {"unlock"} => last.status = 403
         /\ \A s \in Sessions : ~unlocked[s]
         /\ rows = <<>>

\* C1, in every step: the table changes only by audiobook_create or
\* audiobook_save of a session that is unlocked, and a session becomes
\* unlocked only by its own unlock request submitting UPLOAD_KEY.
C1_GateStep ==
    /\ rows' # rows =>
         /\ last'.op \in {"audiobook_create", "audiobook_save"}
         /\ unlocked[last'.sess]
    /\ \A s \in Sessions :
         unlocked'[s] /\ ~unlocked[s] =>
           /\ last'.op = "unlock" /\ last'.sess = s
           /\ Some(SubmittedKey(last'.form)) = uploadKey

\* C1: writes are gated by the shared secret: rows are created or modified
\* and fetch_metadata runs only for an unlocked session, a session is
\* unlocked only by submitting UPLOAD_KEY, and with UPLOAD_KEY unset or
\* empty every gated route and unlock answer 403.
C1_WritesGated == []C1_GateState /\ [][C1_GateStep]_vars

\* C1 witness: an unlocked session has created a row while another session
\* is still locked.
C1_Witness ==
    /\ last.op = "audiobook_create" /\ last.status = 302
    /\ unlocked[last.sess]
    /\ \E s \in Sessions : ~unlocked[s]
    /\ Len(rows) > 0

\* A create or save request that was answered with the redirect.
Saved(r) == r.op \in {"audiobook_create", "audiobook_save"} /\ r.status = 302

C2_IdState ==
    /\ \A i \in DOMAIN rows : rows[i].id = i
    /\ Saved(last) =>
         /\ last.id \in DOMAIN rows
         /\ rows[last.id].title = PyStrip(last.form.title[1], Whitespace)
         /\ rows[last.id].review_text = last.form.review_text

\* C2 amended, in every step: audiobook_save adds no row and changes only
\* the row of its id; audiobook_create adds exactly one row, with a new id,
\* also when a row of the same (person, slug) exists.
C2_IdStep ==
    /\ Handled("audiobook_save") =>
         /\ Len(rows') = Len(rows)
         /\ \A i \in DOMAIN rows : i # last'.id => rows'[i] = rows[i]
    /\ Handled("audiobook_create") /\ last'.status = 302 =>
         /\ Len(rows') = Len(rows) + 1
         /\ last'.id = Len(rows) + 1
         /\ \A i \in DOMAIN rows : rows'[i] = rows[i]
    /\ Handled("audiobook_create") /\ last'.status # 302 => rows' = rows

C3_SlugDerivedFromTitle ==
    \A i \in DOMAIN rows : rows[i].slug = slugify(rows[i].title)

\* The accepted rating range documented on the models (models.py:20, 86).
RatingMin == 1

RatingMax == 10

\* C4: for every create or edit-save that reaches the handler's body with a
\* title, a well-formed date and a numeric rating, the response is the
\* redirect, the other fields are written, and the stored rating is the
\* submitted number when it lies in 1..10 and absent otherwise.
C4_RatingBoundsEnforced ==
    /\ last.op \in {"audiobook_create", "audiobook_save"}
    /\ last.status \notin {403, 404}
    /\ last.form.title # NoneV
    /\ ~(last.form.listened_date # NoneV /\ ~IsIsoDate(last.form.listened_date[1]))
    /\ last.form.rating # NoneV /\ IntParses(last.form.rating[1])
    => /\ last.status = 302
       /\ rows[last.id].review_text = last.form.review_text
       /\ rows[last.id].rating =
            IF PyInt(last.form.rating[1]) \in RatingMin..RatingMax
            THEN Some(PyInt(last.form.rating[1]))
            ELSE NoneV

\* The positions of the characters of [a-z0-9] in a text, in order.
ClassPositions(text) ==
    SelectSeq([i \in 1..Len(text) |-> i], LAMBDA i : text[i] \in SlugClass)

\* slug is text with every maximal run of characters outside [a-z0-9]
\* between two characters of the class replaced by one "-", and the runs at
\* either end removed.
RunsCollapsed(text, slug) ==
    LET p == ClassPositions(text)
        q == ClassPositions(slug)
    IN  /\ Len(q) = Len(p)
        /\ \A k \in DOMAIN p : slug[q[k]] = text[p[k]]
        /\ \A i \in DOMAIN slug : i \notin Range(q) => slug[i] = "-"
        /\ IF p = <<>> THEN slug = <<>>
           ELSE /\ q[1] = 1
                /\ q[Len(q)] = Len(slug)
                /\ \A k \in 1..(Len(p) - 1) :
                     q[k + 1] - q[k] = IF p[k + 1] - p[k] > 1 THEN 2 ELSE 1

\* C5: slugify returns, for every input, the lowercased text with every
\* maximal run of characters outside [a-z0-9] replaced by a single "-" and
\* leading and trailing "-" removed; the result has only [a-z0-9-], no
\* leading, trailing or doubled "-", and slugify of it is itself; "The
\* Chosen!" gives "the-chosen" and "  A & B " gives "a-b".
C5_SlugifyNormalizes ==
    slugCall.slug # NoneV =>
      LET text == slugCall.text
          slug == slugCall.slug[1]
      IN  /\ RunsCollapsed(PyLower(text), slug)
          /\ \A i \in DOMAIN slug : slug[i] \in SlugClass \cup {"-"}
          /\ slug # <<>> => slug[1] # "-" /\ slug[Len(slug)] # "-"
          /\ \A i \in 1..(Len(slug) - 1) : ~(slug[i] = "-" /\ slug[i + 1] = "-")
          /\ slugify(slug) = slug
          /\ text = TheChosenBang =>
               slug = <<"t", "h", "e", "-", "c", "h", "o", "s", "e", "n">>
          /\ text = AAndB => slug = <<"a", "-", "b">>

\* C5 witness: a title with upper case, a run of two characters outside the
\* class inside it and one at its end has been slugified.
C5_Witness ==
    /\ slugCall.text = LongTitle
    /\ slugCall.slug = Some(<<"b", "-", "a">>)

\* A value that is neither None nor the empty string.
NonEmpty(o) == o # NoneV /\ o[1] # <<>>

\* The record of a slug has cover_url or summary non-empty.
Fetched(table, slug) ==
    \E i \in MetaOf(table, slug) :
        NonEmpty(table[i].cover_url) \/ NonEmpty(table[i].summary)

\* C6, in every step: once the record of a slug has cover_url or summary
\* non-empty, no call invokes the Fetcher for it or changes it; a call for
\* a slug whose record is missing or has both fields empty invokes the
\* Fetcher.
C6_RefreshStep ==
    \A slug \in BookSlugs :
        /\ Fetched(metaRows, slug) =>
             /\ fetchCalls'[slug] = fetchCalls[slug]
             /\ \A i \in MetaOf(metaRows, slug) : metaRows'[i] = metaRows[i]
        /\ cacheCalls'[slug] # cacheCalls[slug] /\ ~Fetched(metaRows, slug) =>
             fetchCalls'[slug] = fetchCalls[slug] + 1

\* C6: over any sequence of getOrRefresh calls, a record with cover_url or
\* summary non-empty is never fetched for or changed again, a missing or
\* empty record is fetched for on every call, and there is never more than
\* one record per slug.
C6_CacheRefreshPolicy ==
    /\ [](\A slug \in BookSlugs : Cardinality(MetaOf(metaRows, slug)) <= 1)
    /\ [][C6_RefreshStep]_vars

\* C6 witness: a slug was fetched for twice (the first result was empty),
\* and a third call found the record populated and did not fetch.
C6_Witness ==
    \E slug \in BookSlugs :
        /\ Fetched(metaRows, slug)
        /\ fetchCalls[slug] = 2
        /\ cacheCalls[slug] = 3

PersonOps ==
    {"person_home", "unlock", "audiobooks_list", "audiobook_new", "audiobook_create",
     "audiobook_view", "audiobook_edit", "audiobook_save"}

\* C7: every person-scoped route requested with a person that is no key of
\* PEOPLE answers 404, whatever the session's unlock state, and changes no
\* row, no session flag and no visit count.
C7_UnknownPerson404 ==
    /\ [](last.op \in PersonOps /\ normalize_person(last.person) = NoneV
            => last.status = 404)
    /\ [][last'.op \in PersonOps /\ last' # last
            /\ normalize_person(last'.person) = NoneV
            => UNCHANGED <<rows, unlocked, visits>>]_vars

Strategies(markup) ==
    <<IF markup.li = NoneV THEN NoneV ELSE Some(Join(markup.li[1], CommaSpace)),
      get_links_after_label(markup),
      get_text_by_label(markup)>>

\* The value of the first strategy that yields a non-empty value, or None.
FirstSuccess(markup) ==
    LET v == Strategies(markup)
    IN  IF NonEmpty(v[1]) THEN v[1]
        ELSE IF NonEmpty(v[2]) THEN v[2]
        ELSE IF NonEmpty(v[3]) THEN v[3]
        ELSE NoneV

\* C9: in the result of fetch_metadata, author and narrator each hold the
\* value of the first strategy that yields a non-empty value, and the key
\* is absent when no strategy does.
C9_LayeredExtraction ==
    last.op = "fetch_metadata" /\ last.status = 200 =>
      \A field \in {"author", "narrator"} :
        LET markup == IF field = "author" THEN last.page.author ELSE last.page.narrator
        IN  IF FirstSuccess(markup) = NoneV
            THEN field \notin DOMAIN last.body
            ELSE field \in DOMAIN last.body /\ last.body[field] = FirstSuccess(markup)

\* C10: when all the concurrent page views have returned, the stored count
\* is the starting count plus their number, and no two were returned the
\* same count.
C10_NoLostVisit ==
    (\A r \in Views : vreq.req[r].pc = "done") =>
      /\ ReadCount(visits[1]) = vreq.start + MaxRequests
      /\ \A r1, r2 \in Views :
           vreq.req[r1].count = vreq.req[r2].count => r1 = r2

RowOps == {"audiobook_view", "audiobook_edit", "audiobook_save"}

\* The request just handled names, under the path of r.person, the id of a
\* row that exists and belongs to someone else.
ForeignRow(r, table) ==
    /\ r.id \in DOMAIN table
    /\ table[r.id].person # PyLower(r.person)

\* The session may not write: uploads are disabled or it has not unlocked.
Refused(s) == uploadKey \in {NoneV, Some(<<>>)} \/ ~unlocked[s]

\* A row keeps its place and its person, and its fields change only by a
\* save answered with the redirect, of an unlocked session, under the path
\* of the row's person.
C11_OwnerOnly ==
    \A i \in DOMAIN rows :
        /\ i \in DOMAIN rows'
        /\ rows'[i].person = rows[i].person
        /\ rows'[i] # rows[i] =>
             /\ Handled("audiobook_save") /\ last'.status = 302
             /\ last'.id = i
             /\ unlocked[last'.sess]
             /\ PyLower(last'.person) = rows[i].person

\* C11 as stated: a view, edit or save request under person p for an id
\* whose row belongs to a different person answers 404 and leaves the row
\* unchanged; a row's person never changes and a row's fields are modified
\* only by unlocked save requests under its owner's path.
C11_ForeignRow404 ==
    [][/\ \A op \in RowOps :
            Handled(op) /\ ForeignRow(last', rows) =>
              last'.status = 404 /\ rows' = rows
       /\ C11_OwnerOnly]_vars

\* C11 amended: a view request under person p for an id whose row belongs
\* to a different person answers 404; an edit or save request for such a
\* row answers 403 when uploads are disabled or the session is locked and
\* 404 otherwise; in every case the table is unchanged; a row's person
\* never changes and a row's fields are modified only by unlocked save
\* requests under its owner's path.
C11_RowsIsolated ==
    [][/\ Handled("audiobook_view") /\ ForeignRow(last', rows) =>
            last'.status = 404 /\ rows' = rows /\ visits' = visits
       /\ \A op \in {"audiobook_edit", "audiobook_save"} :
            Handled(op) /\ ForeignRow(last', rows) =>
              /\ last'.status = IF Refused(last'.sess) THEN 403 ELSE 404
              /\ rows' = rows /\ visits' = visits
       /\ C11_OwnerOnly]_vars

\* C11 witness: an unlocked session's save under one person's path, for a
\* row of the other person, was answered 404 and the row holds what its
\* owner saved.
C11_Witness ==
    /\ last.op = "audiobook_save" /\ last.status = 404
    /\ unlocked[last.sess]
    /\ PyLower(last.person) \in PEOPLE
    /\ last.id \in DOMAIN rows
    /\ rows[last.id].person # PyLower(last.person)
    /\ rows[last.id].review_text # last.form.review_text
    /\ \E i \in DOMAIN rows : rows[i].person = PyLower(last.person)

====
